---- MODULE Spec2Model ----
(***************************************************************************)
(* Model of src/script.js, a browser study-time tracker.                   *)
(*                                                                         *)
(* JavaScript values are tagged records.  A finite number is kept in       *)
(* tenths (field x10), so that 0.4 and 1.5 are representable; NaN and the  *)
(* two infinities are separate values.  Strings are TLA+ strings.          *)
(* A Date is its time value: milliseconds since the local midnight of the  *)
(* model's first calendar day (2024-02-28, see EpochDays), in a local     *)
(* zone without daylight-saving shifts.                                    *)
(* The five subject names of SUBJECTS are written in Latin letters:        *)
(* kokugo, sugaku, eigo, rika, shakai.                                     *)
(***************************************************************************)
EXTENDS Integers, Sequences, FiniteSets, TLC

VARIABLES storage, currentSession, startBtnDisabled, endBtnDisabled,
          recordStatus, goalMessage, view, clock, probe

vars == <<storage, currentSession, startBtnDisabled, endBtnDisabled,
          recordStatus, goalMessage, view, clock, probe>>

(***************************************************************************)
(* Bounds of the model.                                                    *)
(***************************************************************************)
MaxDay == 1
MaxRecords == 2
NumButtons == 2
MaxWindowDay == 11

(***************************************************************************)
(* JavaScript values.                                                      *)
(***************************************************************************)
Undef == [t |-> "undefined"]
Null == [t |-> "null"]
NaN == [t |-> "NaN"]
PosInf == [t |-> "Infinity"]
NegInf == [t |-> "-Infinity"]
Num(n) == [t |-> "number", x10 |-> n * 10]
Frac(tenths) == [t |-> "number", x10 |-> tenths]
Str(s) == [t |-> "string", s |-> s]
Arr(a) == [t |-> "array", a |-> a]
Obj(f) == [t |-> "object", f |-> f]

IsNumber(v) == v.t \in {"number", "NaN", "Infinity", "-Infinity"}

\* obj.key : undefined for a missing property and for a property of a
\* primitive.  (null.key throws; the callers test for null first.)
Get(v, key) ==
    IF v.t = "object" /\ key \in DOMAIN v.f THEN v.f[key] ELSE Undef

\* obj?.key
OptGet(v, key) == IF v.t \in {"null", "undefined"} THEN Undef ELSE Get(v, key)

(***************************************************************************)
(* Number, Math.round, Math.max on these values.                           *)
(***************************************************************************)
Digits ==
    [c \in {"0", "1", "2", "3", "4", "5", "6", "7", "8", "9"} |->
        CASE c = "0" -> 0 [] c = "1" -> 1 [] c = "2" -> 2 [] c = "3" -> 3
          [] c = "4" -> 4 [] c = "5" -> 5 [] c = "6" -> 6 [] c = "7" -> 7
          [] c = "8" -> 8 [] c = "9" -> 9]
IsDigit(c) == c \in DOMAIN Digits
DigitVal(c) == Digits[c]

AllDigits(s) == Len(s) > 0 /\ \A i \in 1..Len(s) : IsDigit(SubSeq(s, i, i))

RECURSIVE DecimalValue(_)
DecimalValue(s) ==
    IF Len(s) = 0 THEN 0
    ELSE 10 * DecimalValue(SubSeq(s, 1, Len(s) - 1)) + DigitVal(SubSeq(s, Len(s), Len(s)))

\* The position of the first "." of s, or 0.
DotAt(s) ==
    IF \E i \in 1..Len(s) : SubSeq(s, i, i) = "."
    THEN CHOOSE i \in 1..Len(s) :
            /\ SubSeq(s, i, i) = "."
            /\ \A j \in 1..(i - 1) : SubSeq(s, j, j) # "."
    ELSE 0

\* An unsigned decimal literal with at most one fractional digit (the texts
\* the model draws have no more), as a number value; NaN for any other text.
UnsignedToNumber(s) ==
    LET dot == DotAt(s) IN
    IF s = "Infinity" THEN PosInf
    ELSE IF dot = 0 THEN (IF AllDigits(s) THEN Num(DecimalValue(s)) ELSE NaN)
    ELSE LET ip == SubSeq(s, 1, dot - 1)
             fp == SubSeq(s, dot + 1, Len(s))
         IN IF /\ Len(ip) + Len(fp) > 0
               /\ Len(fp) <= 1
               /\ (Len(ip) = 0 \/ AllDigits(ip))
               /\ (Len(fp) = 0 \/ AllDigits(fp))
            THEN Frac(10 * DecimalValue(ip) + DecimalValue(fp))
            ELSE NaN

Negate(n) ==
    CASE n.t = "number" -> Frac(0 - n.x10)
      [] n.t = "Infinity" -> NegInf
      [] n.t = "-Infinity" -> PosInf
      [] OTHER -> NaN

\* Number(string): the empty string is 0, a signed decimal literal or
\* "Infinity" is its value, anything else is NaN.
StringToNumber(s) ==
    IF Len(s) = 0 THEN Num(0)
    ELSE LET signed(n) == IF SubSeq(s, 1, 1) = "-" THEN Negate(n) ELSE n
         IN signed(UnsignedToNumber(IF SubSeq(s, 1, 1) \in {"-", "+"}
                                    THEN SubSeq(s, 2, Len(s))
                                    ELSE s))

\* Number(v)
ToNumber(v) ==
    CASE IsNumber(v) -> v
      [] v.t = "string" -> StringToNumber(v.s)
      [] v.t = "null" -> Num(0)
      [] v.t = "array" /\ Len(v.a) = 0 -> Num(0)
      [] OTHER -> NaN

\* a > 0 on number values (false for NaN)
GreaterThanZero(n) == (n.t = "number" /\ n.x10 > 0) \/ n.t = "Infinity"

\* a <= 0 on number values (false for NaN)
AtMostZero(n) == (n.t = "number" /\ n.x10 <= 0) \/ n.t = "-Infinity"

\* Number.isFinite(n)
IsFinite(n) == n.t = "number"

\* Math.round of a finite number: the nearest integer, a half rounding up.
MathRound(n) == Frac(((n.x10 + 5) \div 10) * 10)

\* Math.max(a, b) on integers
MathMax(a, b) == IF a >= b THEN a ELSE b

\* a + b on number values
NumAdd(a, b) ==
    CASE a.t = "NaN" \/ b.t = "NaN" -> NaN
      [] a.t = "number" /\ b.t = "number" -> Frac(a.x10 + b.x10)
      [] a.t = "number" -> b
      [] b.t = "number" -> a
      [] a.t = b.t -> a
      [] OTHER -> NaN

\* a - b on number values
NumSub(a, b) == NumAdd(a, Negate(b))

\* Math.max(a, b) on number values (NaN when either is NaN)
NumMax(a, b) ==
    CASE a.t = "NaN" \/ b.t = "NaN" -> NaN
      [] a.t = "Infinity" \/ b.t = "Infinity" -> PosInf
      [] a.t = "-Infinity" -> b
      [] b.t = "-Infinity" -> a
      [] OTHER -> IF a.x10 >= b.x10 THEN a ELSE b

\* x || 0 on number values: NaN and 0 are falsy
OrZero(n) == IF n.t = "NaN" \/ (n.t = "number" /\ n.x10 = 0) THEN Num(0) ELSE n

(***************************************************************************)
(* Date.  A time value is an integer of milliseconds; an invalid Date is   *)
(* InvalidDate.  The calendar is the proleptic Gregorian one, computed     *)
(* from a day number counted from 1970-01-01.                              *)
(***************************************************************************)
DayMs == 24 * 60 * 60 * 1000

\* The day number of year-month-day; day may lie outside the month (as in
\* Date.prototype.setDate), the result then lies in a neighbouring month.
DaysFromCivil(year, month, day) ==
    LET y == IF month <= 2 THEN year - 1 ELSE year
        era == y \div 400
        yoe == y - era * 400
        mp == IF month > 2 THEN month - 3 ELSE month + 9
        doy == (153 * mp + 2) \div 5 + day - 1
        doe == yoe * 365 + yoe \div 4 - yoe \div 100 + doy
    IN era * 146097 + doe - 719468

\* The calendar date [y, m, d] (m in 1..12) of a day number.
CivilFromDays(days) ==
    LET civil(y, m, d) == [y |-> y + (IF m <= 2 THEN 1 ELSE 0), m |-> m, d |-> d]
        ofMp(y, doy, mp) ==
            civil(y, IF mp < 10 THEN mp + 3 ELSE mp - 9, doy - (153 * mp + 2) \div 5 + 1)
        ofDoy(y, doy) == ofMp(y, doy, (5 * doy + 2) \div 153)
        ofYoe(era, doe, yoe) ==
            ofDoy(yoe + era * 400, doe - (365 * yoe + yoe \div 4 - yoe \div 100))
        ofDoe(era, doe) ==
            ofYoe(era, doe,
                  (doe - doe \div 1460 + doe \div 36524 - doe \div 146096) \div 365)
        ofZ(z) == ofDoe(z \div 146097, z % 146097)
    IN ofZ(days + 719468)

\* The model's day 0 is 2024-02-28.
EpochDays == DaysFromCivil(2024, 2, 28)

\* The local calendar date of a time value.
LocalDate(t) == CivilFromDays(EpochDays + t \div DayMs)

GetFullYear(t) == LocalDate(t).y
GetMonth(t) == LocalDate(t).m - 1
GetDate(t) == LocalDate(t).d

\* date.setHours(0, 0, 0, 0)
SetHoursZero(t) == t - (t % DayMs)

\* date.setDate(dayOfMonth): same month and time of day, the given day of
\* the month; a day below 1 falls in the month before.
SetDate(t, dayOfMonth) ==
    (DaysFromCivil(GetFullYear(t), GetMonth(t) + 1, dayOfMonth) - EpochDays) * DayMs
        + (t % DayMs)

\* String(n).padStart(2, "0") for a number n >= 0
PadStart2(n) == IF Len(ToString(n)) < 2 THEN "0" \o ToString(n) ELSE ToString(n)

\* formatDate(date): YYYY-MM-DD of the local calendar date
formatDate(date) ==
    ToString(GetFullYear(date)) \o "-" \o PadStart2(GetMonth(date) + 1)
        \o "-" \o PadStart2(GetDate(date))

DaysInMonth(y, m) == DaysFromCivil(y, m + 1, 1) - DaysFromCivil(y, m, 1)

InvalidDate == -1 - DayMs

\* new Date(text) for the text YYYY-MM-DDT00:00:00: the local midnight of
\* that day; any other text, or a month or day out of range, is invalid.
ParseLocalDateTime(text) ==
    IF /\ Len(text) = 19
       /\ AllDigits(SubSeq(text, 1, 4))
       /\ SubSeq(text, 5, 5) = "-"
       /\ AllDigits(SubSeq(text, 6, 7))
       /\ SubSeq(text, 8, 8) = "-"
       /\ AllDigits(SubSeq(text, 9, 10))
       /\ SubSeq(text, 11, 19) = "T00:00:00"
    THEN LET midnightOf(y, m, d) ==
                 IF m \in 1..12 /\ d >= 1 /\ d <= DaysInMonth(y, m)
                 THEN (DaysFromCivil(y, m, d) - EpochDays) * DayMs
                 ELSE InvalidDate
         IN midnightOf(DecimalValue(SubSeq(text, 1, 4)),
                       DecimalValue(SubSeq(text, 6, 7)),
                       DecimalValue(SubSeq(text, 9, 10)))
    ELSE InvalidDate

\* `${v}` : the text of a value inside a template literal
TemplateText(v) ==
    CASE v.t = "string" -> v.s
      [] v.t = "number" /\ v.x10 % 10 = 0 /\ v.x10 >= 0 -> ToString(v.x10 \div 10)
      [] OTHER -> v.t

(***************************************************************************)
(* localStorage and JSON.  An item of the storage is absent, or a text:    *)
(* the empty text, a text that is not JSON, or a JSON text, kept as the    *)
(* value JSON.parse gives for it (a number literal beyond the double range *)
(* parses to Infinity).                                                    *)
(***************************************************************************)
AbsentItem == [k |-> "absent"]
EmptyItem == [k |-> "empty"]
GarbageItem == [k |-> "garbage"]
JsonItem(v) == [k |-> "json", v |-> v]

\* The completion of an expression that throws.
Thrown == [t |-> "throw"]

\* !raw for what getItem returns: null and "" are falsy
ItemIsFalsy(item) == item.k \in {"absent", "empty"}

\* JSON.parse(raw)
JSONParse(item) == IF item.k = "json" THEN item.v ELSE Thrown

\* The value a JSON text written by JSON.stringify(v) denotes: NaN and the
\* infinities are written as null, an undefined property is left out, an
\* undefined array element is written as null.
RECURSIVE JSONValue(_)
JSONValue(v) ==
    CASE v.t \in {"NaN", "Infinity", "-Infinity"} -> Null
      [] v.t = "array" ->
            Arr([i \in DOMAIN v.a |->
                    IF v.a[i].t = "undefined" THEN Null ELSE JSONValue(v.a[i])])
      [] v.t = "object" ->
            Obj([key \in {x \in DOMAIN v.f : v.f[x].t # "undefined"} |->
                    JSONValue(v.f[key])])
      [] OTHER -> v

\* JSON.stringify(data), as a storage item
JSONStringify(data) == JsonItem(JSONValue(data))

defaultData ==
    Obj([records |-> Arr(<<>>),
         goal |-> Obj([mode |-> Str("weekly"), targetMinutes |-> Num(300)])])

\* A validation of the snapshot as a whole: one invalid field gives the
\* default for both.
loadDataTryWholesale(item) ==
    IF ItemIsFalsy(item) THEN defaultData
    ELSE LET parsed == JSONParse(item) IN
         IF parsed = Thrown THEN Thrown
         ELSE IF parsed.t = "null" THEN Thrown
         ELSE LET snapshot(target) ==
                      IF Get(parsed, "records").t = "array" /\ GreaterThanZero(target)
                      THEN Obj([records |-> Get(parsed, "records"),
                                goal |-> Obj([mode |-> Str("weekly"),
                                              targetMinutes |-> target])])
                      ELSE Obj([records |-> Arr(<<>>),
                                goal |-> Obj([mode |-> Str("weekly"),
                                              targetMinutes |-> Num(300)])])
              IN snapshot(ToNumber(OptGet(OptGet(parsed, "goal"), "targetMinutes")))

\* The body of loadData's try block: the snapshot, or Thrown.
loadDataTry(item) ==
    IF ItemIsFalsy(item) THEN defaultData
    ELSE LET parsed == JSONParse(item) IN
         IF parsed = Thrown THEN Thrown
         ELSE IF parsed.t = "null" THEN Thrown
         ELSE LET targetOr300(target) ==
                      IF GreaterThanZero(target) THEN target ELSE Num(300)
              IN Obj([records |-> IF Get(parsed, "records").t = "array"
                                  THEN Get(parsed, "records")
                                  ELSE Arr(<<>>),
                      goal |-> Obj([mode |-> Str("weekly"),
                                    targetMinutes |->
                                       targetOr300(ToNumber(
                                          OptGet(OptGet(parsed, "goal"),
                                                 "targetMinutes")))])])

\* loadData(): the catch clause turns a throw into the default snapshot.
loadData(item) ==
    LET catch(completion) == IF completion = Thrown THEN defaultData ELSE completion
    IN catch(loadDataTry(item))

\* saveData(data): the item the storage holds afterwards
saveData(data) == JSONStringify(data)

(***************************************************************************)
(* Aggregation.                                                            *)
(***************************************************************************)
SUBJECTS == <<"kokugo", "sugaku", "eigo", "rika", "shakai">>

\* A window that starts 7 days before today.
filterLast8Days(records, now) ==
    LET start == SetDate(SetHoursZero(now), GetDate(SetHoursZero(now)) - 7)
        inWindow(recDate) ==
            recDate # InvalidDate /\ recDate >= start /\ recDate <= now
        keep(record) ==
            inWindow(ParseLocalDateTime(TemplateText(Get(record, "date"))
                                            \o "T00:00:00"))
    IN Arr(SelectSeq(records.a, keep))

\* A window whose first day is excluded.
filterAfterStart(records, now) ==
    LET start == SetDate(SetHoursZero(now), GetDate(SetHoursZero(now)) - 6)
        inWindow(recDate) ==
            recDate # InvalidDate /\ recDate > start /\ recDate <= now
        keep(record) ==
            inWindow(ParseLocalDateTime(TemplateText(Get(record, "date"))
                                            \o "T00:00:00"))
    IN Arr(SelectSeq(records.a, keep))

\* A window that ends before now.
filterBeforeNow(records, now) ==
    LET start == SetDate(SetHoursZero(now), GetDate(SetHoursZero(now)) - 6)
        inWindow(recDate) ==
            recDate # InvalidDate /\ recDate >= start /\ recDate < now
        keep(record) ==
            inWindow(ParseLocalDateTime(TemplateText(Get(record, "date"))
                                            \o "T00:00:00"))
    IN Arr(SelectSeq(records.a, keep))

\* filterLast7Days(records), with the value `new Date()` gives as now
filterLast7Days(records, now) ==
    LET start == SetDate(SetHoursZero(now), GetDate(SetHoursZero(now)) - 6)
        inWindow(recDate) ==
            recDate # InvalidDate /\ recDate >= start /\ recDate <= now
        keep(record) ==
            inWindow(ParseLocalDateTime(TemplateText(Get(record, "date"))
                                            \o "T00:00:00"))
    IN Arr(SelectSeq(records.a, keep))

\* Names every object inherits from Object.prototype: totals[name] is not
\* undefined for them although totals has no such key of its own.
InheritedNames == {"constructor", "toString", "valueOf", "hasOwnProperty"}

\* One step of calcSubjectTotals' forEach.
AddToTotals(totals, record) ==
    LET key == TemplateText(Get(record, "subject"))
        minutes == OrZero(ToNumber(Get(record, "duration")))
    IN IF key \in DOMAIN totals
       THEN [totals EXCEPT ![key] =
                IF @.t = "string" THEN @ ELSE NumAdd(@, minutes)]
       ELSE IF key \in InheritedNames
       THEN [k \in DOMAIN totals \cup {key} |->
                IF k = key THEN Str("function") ELSE totals[k]]
       ELSE totals

RECURSIVE TotalsOver(_, _)
TotalsOver(totals, recs) ==
    IF Len(recs) = 0 THEN totals
    ELSE TotalsOver(AddToTotals(totals, Head(recs)), Tail(recs))

\* calcSubjectTotals(records)
calcSubjectTotals(records) ==
    TotalsOver([key \in {SUBJECTS[i] : i \in 1..Len(SUBJECTS)} |-> Num(0)], records.a)

RECURSIVE SumDurations(_)
SumDurations(recs) ==
    IF Len(recs) = 0 THEN Num(0)
    ELSE NumAdd(SumDurations(SubSeq(recs, 1, Len(recs) - 1)),
                OrZero(ToNumber(Get(recs[Len(recs)], "duration"))))

\* updateProgressView(): the texts of weeklyTotal and remainingMinutes and the
\* data of the chart (renderChart), from the storage item and the clock.
updateProgressView(item, now) ==
    LET render(target, weeklyTotal, subjectTotals) ==
            [weeklyTotal |-> weeklyTotal,
             remaining |-> NumMax(Num(0), NumSub(target, weeklyTotal)),
             chart |-> [i \in 1..Len(SUBJECTS) |-> subjectTotals[SUBJECTS[i]]]]
        ofRecent(data, recentRecords) ==
            render(Get(Get(data, "goal"), "targetMinutes"),
                   SumDurations(recentRecords.a),
                   calcSubjectTotals(recentRecords))
        ofData(data) == ofRecent(data, filterLast7Days(Get(data, "records"), now))
    IN ofData(loadData(item))

(***************************************************************************)
(* The page: session, controls, messages, progress view, storage, clock.   *)
(***************************************************************************)
TickMs == 90 * 1000

\* The values the wall clock takes in the model.
Times == {d * (DayMs + TickMs) : d \in 0..MaxDay}

\* The subject buttons of the page carry the first NumButtons names.
SubjectButtons == {SUBJECTS[i] : i \in 1..NumButtons}

\* Texts typed into the goal input before the save button is clicked.
GoalTexts == {"", "0", "-1", "abc", "Infinity", "0.4", "1.5"}

DateValue(ms) == [t |-> "date", ms |-> ms]

\* !v
Falsy(v) ==
    \/ v.t \in {"null", "undefined", "NaN"}
    \/ (v.t = "string" /\ v.s = "")
    \/ (v.t = "number" /\ v.x10 = 0)

\* A record stored before the model's first day, outside every 7-day window
\* of the model's clock.
OldRecord ==
    Obj([date |-> Str("2024-02-10"), subject |-> Str("eigo"), duration |-> Num(30)])

\* What the storage may hold when the page is opened: nothing (first visit),
\* or a snapshot saved by an earlier visit.
InitialItems ==
    {AbsentItem,
     JSONStringify(Obj([records |-> Arr(<<OldRecord>>),
                        goal |-> Obj([mode |-> Str("weekly"),
                                      targetMinutes |-> Num(45)])]))}

\* The minutes rounded down instead of to the nearest.
durationMinutesFloor(startAt, endAt) ==
    MathMax(1, (endAt - startAt) \div 60000)

\* Math.max(1, Math.round((endAt.getTime() - startAt.getTime()) / 60000))
durationMinutes(startAt, endAt) ==
    MathMax(1, (endAt - startAt + 30000) \div 60000)

\* The record the end handler pushes.
newRecord(endAt, subject, minutes) ==
    Obj([date |-> Str(formatDate(endAt)), subject |-> subject, duration |-> Num(minutes)])

\* The record put in front of the stored ones.
pushRecordFront(data, record) ==
    Obj([data.f EXCEPT !.records = Arr(<<record>> \o @.a)])

\* data.records.push(record)
pushRecord(data, record) ==
    Obj([data.f EXCEPT !.records = Arr(Append(@.a, record))])

\* data.goal = { mode: "weekly", targetMinutes: minutes }
setGoal(data, minutes) ==
    Obj([data.f EXCEPT !.goal = Obj([mode |-> Str("weekly"), targetMinutes |-> minutes])])

\* A selection that also drops the start time.
sessionAfterSelectRestarts(session, name) == [subject |-> Str(name), startAt |-> Null]

\* currentSession.subject = btn.dataset.subject
sessionAfterSelect(session, name) == [session EXCEPT !.subject = Str(name)]

\* A start that keeps the start time of a running session.
sessionAfterStartGuarded(session, now) ==
    IF session.startAt = Null THEN [session EXCEPT !.startAt = DateValue(now)] ELSE session

\* currentSession.startAt = new Date()
sessionAfterStart(session, now) == [session EXCEPT !.startAt = DateValue(now)]

\* A reset that clears the subject as well.
sessionAfterStopClearsSubject(session) == [subject |-> Null, startAt |-> Null]

\* The end handler's reset of the session.
sessionAfterStop(session) == [session EXCEPT !.startAt = Null]

\* A start handler without its guard.
startRejectedNever(session) == FALSE

\* A start guard that tests the start time instead of the subject.
startRejectedWhenRunning(session) == ~Falsy(session.startAt)

\* The guard of the start handler: no subject is selected.
startRejected(session) == Falsy(session.subject)

\* An end handler that rejects every click.
endRejectedAlways(session) == TRUE

\* The guard of the end handler: no start time, or no subject.
endRejected(session) == Falsy(session.startAt) \/ Falsy(session.subject)

\* A goal guard that only tests finiteness.
goalRejectedFiniteOnly(value) == ~IsFinite(value)

\* The guard of the goal handler: the value is not a finite number above 0.
goalRejected(value) == ~IsFinite(value) \/ AtMostZero(value)

\* A click on a subject button.
subjectBtnClick(name) ==
    /\ currentSession' = sessionAfterSelect(currentSession, name)
    /\ recordStatus' = [kind |-> "selected", subject |-> Str(name)]
    /\ UNCHANGED <<storage, startBtnDisabled, endBtnDisabled, goalMessage, view,
                   clock, probe>>

\* The click handler of startBtn.
startBtnClick ==
    \/ /\ startRejected(currentSession)
       /\ recordStatus' = [kind |-> "needSubject"]
       /\ UNCHANGED <<storage, currentSession, startBtnDisabled, endBtnDisabled,
                      goalMessage, view, clock, probe>>
    \/ /\ ~startRejected(currentSession)
       /\ currentSession' = sessionAfterStart(currentSession, clock)
       /\ startBtnDisabled' = TRUE
       /\ endBtnDisabled' = FALSE
       /\ recordStatus' = [kind |-> "started", at |-> clock]
       /\ UNCHANGED <<storage, goalMessage, view, clock, probe>>

\* The click handler of endBtn.  The model stops appending at MaxRecords
\* stored records.
endBtnClick ==
    \/ /\ endRejected(currentSession)
       /\ recordStatus' = [kind |-> "needStart"]
       /\ UNCHANGED <<storage, currentSession, startBtnDisabled, endBtnDisabled,
                      goalMessage, view, clock, probe>>
    \/ /\ ~endRejected(currentSession)
       /\ Len(Get(loadData(storage), "records").a) < MaxRecords
       /\ LET endAt == clock
              minutes == durationMinutes(currentSession.startAt.ms, endAt)
              data == pushRecord(loadData(storage),
                                 newRecord(endAt, currentSession.subject, minutes))
          IN /\ storage' = saveData(data)
             /\ recordStatus' = [kind |-> "recorded",
                                 subject |-> currentSession.subject,
                                 minutes |-> minutes]
             /\ currentSession' = sessionAfterStop(currentSession)
             /\ startBtnDisabled' = FALSE
             /\ endBtnDisabled' = TRUE
             /\ view' = updateProgressView(storage', clock)
       /\ UNCHANGED <<goalMessage, clock, probe>>

\* The click handler of saveGoalBtn, with the text of the goal input.
saveGoalBtnClick(text) ==
    LET value == ToNumber(Str(text)) IN
    \/ /\ goalRejected(value)
       /\ goalMessage' = [kind |-> "invalid"]
       /\ UNCHANGED <<storage, currentSession, startBtnDisabled, endBtnDisabled,
                      recordStatus, view, clock, probe>>
    \/ /\ ~goalRejected(value)
       /\ LET data == setGoal(loadData(storage), MathRound(value))
          IN /\ storage' = saveData(data)
             /\ goalMessage' = [kind |-> "saved", minutes |-> MathRound(value)]
             /\ view' = updateProgressView(storage', clock)
       /\ UNCHANGED <<currentSession, startBtnDisabled, endBtnDisabled,
                      recordStatus, clock, probe>>

\* A click on the tab of the progress screen.
progressTabClick ==
    /\ view' = updateProgressView(storage, clock)
    /\ UNCHANGED <<storage, currentSession, startBtnDisabled, endBtnDisabled,
                   recordStatus, goalMessage, clock, probe>>

\* An init() that writes the default over everything but a stored object.
initStorageUnlessObject(item) ==
    IF item.k = "json" /\ item.v.t = "object" THEN item ELSE saveData(defaultData)

\* The storage item after init()'s first statement.
initStorage(item) == IF ItemIsFalsy(item) THEN saveData(defaultData) ELSE item

\* The page as init() leaves it: the script's fresh session, the controls
\* and messages as the document declares them, the progress view drawn.
PageLoaded(item, startDisabled, endDisabled, now) ==
    [storage |-> initStorage(item),
     currentSession |-> [subject |-> Null, startAt |-> Null],
     startBtnDisabled |-> startDisabled,
     endBtnDisabled |-> endDisabled,
     recordStatus |-> [kind |-> "initial"],
     goalMessage |-> [kind |-> "initial"],
     view |-> updateProgressView(initStorage(item), now)]

\* The page is loaded again: the script runs from the top and init() is called.
Reload ==
    /\ LET page == PageLoaded(storage, FALSE, FALSE, clock)
       IN /\ storage' = page.storage
          /\ currentSession' = page.currentSession
          /\ recordStatus' = page.recordStatus
          /\ goalMessage' = page.goalMessage
          /\ view' = page.view
    /\ startBtnDisabled' \in BOOLEAN
    /\ endBtnDisabled' \in BOOLEAN
    /\ UNCHANGED <<clock, probe>>

\* Time passes.
ClockAdvance ==
    /\ \E t \in Times : t > clock /\ clock' = t
    /\ UNCHANGED <<storage, currentSession, startBtnDisabled, endBtnDisabled,
                   recordStatus, goalMessage, view, probe>>

\* The wall clock is set back.
ClockSetBack ==
    /\ \E t \in Times : t < clock /\ clock' = t
    /\ UNCHANGED <<storage, currentSession, startBtnDisabled, endBtnDisabled,
                   recordStatus, goalMessage, view, probe>>

NoProbe == [op |-> "none"]

\* The page of a first visit, before any click.
FirstPage == PageLoaded(AbsentItem, FALSE, TRUE, 0)

Init ==
    /\ probe = NoProbe
    /\ clock \in Times
    /\ \E item \in InitialItems, sd \in BOOLEAN, ed \in BOOLEAN :
          LET page == PageLoaded(item, sd, ed, clock)
          IN /\ storage = page.storage
             /\ currentSession = page.currentSession
             /\ startBtnDisabled = page.startBtnDisabled
             /\ endBtnDisabled = page.endBtnDisabled
             /\ recordStatus = page.recordStatus
             /\ goalMessage = page.goalMessage
             /\ view = page.view

\* A click reaches a button's handler only while the button is enabled.
Next ==
    \/ \E name \in SubjectButtons : subjectBtnClick(name)
    \/ (~startBtnDisabled /\ startBtnClick)
    \/ (~endBtnDisabled /\ endBtnClick)
    \/ \E text \in GoalTexts : saveGoalBtnClick(text)
    \/ progressTabClick
    \/ Reload
    \/ ClockAdvance
    \/ ClockSetBack

Spec == Init /\ [][Next]_vars

(***************************************************************************)
(* The persisted snapshot as stored, and the steps the properties are      *)
(* about.                                                                  *)
(***************************************************************************)
Persisted(item) == IF item.k = "json" THEN item.v ELSE Undef
PersistedRecords(item) == Get(Persisted(item), "records")
PersistedGoal(item) == Get(Persisted(item), "goal")
PersistedTarget(item) == Get(PersistedGoal(item), "targetMinutes")

\* The calendar days of the model, day 0 first.
CalendarDays ==
    <<"2024-02-28", "2024-02-29", "2024-03-01", "2024-03-02", "2024-03-03",
      "2024-03-04", "2024-03-05", "2024-03-06", "2024-03-07", "2024-03-08",
      "2024-03-09", "2024-03-10", "2024-03-11", "2024-03-12", "2024-03-13">>

DayIndex(t) == t \div DayMs
DayText(t) == CalendarDays[DayIndex(t) + 1]

\* A step of the end handler taken while a start time is recorded.
StopStep == currentSession.startAt # Null /\ endBtnClick

LastOf(seq) == seq[Len(seq)]

C3_StopAppendsOneRecord ==
    [][StopStep =>
        /\ Len(PersistedRecords(storage').a) = Len(PersistedRecords(storage).a) + 1
        /\ SubSeq(PersistedRecords(storage').a, 1, Len(PersistedRecords(storage).a))
              = PersistedRecords(storage).a
        /\ Get(LastOf(PersistedRecords(storage').a), "date") = Str(DayText(clock))
        /\ Get(LastOf(PersistedRecords(storage').a), "subject") = currentSession.subject
        /\ PersistedGoal(storage') = PersistedGoal(storage)]_vars

\* C4: a start click with no subject selected, and an end click with no
\* start time recorded, change nothing but the status message.
C4_RejectedChangesNothing ==
    [][((currentSession.subject = Null /\ startBtnClick)
            \/ (currentSession.startAt = Null /\ endBtnClick)) =>
        /\ UNCHANGED <<currentSession, storage, startBtnDisabled, endBtnDisabled,
                       goalMessage, view>>
        /\ recordStatus'.kind \in {"needSubject", "needStart"}]_vars

C4_Witness ==
    /\ recordStatus.kind = "needStart"
    /\ currentSession.startAt = Null
    /\ ~endBtnDisabled

\* C5: a subject selected while a start time is recorded leaves the start
\* time, the controls and the storage as they are and becomes the session's
\* subject; the record of a stop carries the subject held at the stop, with
\* the minutes measured from the start time held at the stop.
C5_SelectWhileRunning ==
    [][/\ \A name \in SubjectButtons :
            (currentSession.startAt # Null /\ subjectBtnClick(name)) =>
                /\ currentSession'.startAt = currentSession.startAt
                /\ currentSession'.subject = Str(name)
                /\ UNCHANGED <<storage, startBtnDisabled, endBtnDisabled>>
       /\ StopStep =>
            /\ Get(LastOf(PersistedRecords(storage').a), "subject")
                  = currentSession.subject
            /\ Get(LastOf(PersistedRecords(storage').a), "duration")
                  = Num(durationMinutes(currentSession.startAt.ms, clock))]_vars

C5_Witness ==
    /\ currentSession.startAt # Null
    /\ recordStatus.kind = "selected"
    /\ currentSession.subject = recordStatus.subject
    /\ startBtnDisabled

\* Goal texts that denote 0, a negative number, no number, or no finite number.
InvalidGoalTexts == {"", "0", "-1", "abc", "Infinity"}

\* C7: saving a goal whose input is 0, negative, non-numeric or non-finite
\* shows the message and leaves the storage (records and goal) as it was.
C7_InvalidGoalRejected ==
    [][\A text \in InvalidGoalTexts :
            saveGoalBtnClick(text) =>
                /\ goalMessage' = [kind |-> "invalid"]
                /\ storage' = storage
                /\ UNCHANGED view]_vars

C7_Witness ==
    /\ goalMessage.kind = "invalid"
    /\ PersistedTarget(storage) = Num(2)

\* C8 as stated: in every reachable state the persisted snapshot has records
\* as an array and goal.targetMinutes as a positive integer, and load()
\* returns the stored targetMinutes.
C8_SnapshotValid ==
    /\ storage.k = "json"
    /\ PersistedRecords(storage).t = "array"
    /\ PersistedTarget(storage).t = "number"
    /\ PersistedTarget(storage).x10 > 0
    /\ PersistedTarget(storage).x10 % 10 = 0
    /\ Get(Get(loadData(storage), "goal"), "targetMinutes") = PersistedTarget(storage)

(***************************************************************************)
(* The end handler on a running session, for start and stop times a few    *)
(* milliseconds around the rounding boundaries.                            *)
(***************************************************************************)
DurationTimes ==
    {0, 1, 29999, 30000, 59999, 60000, 89999, 90000, 150000, DayMs + 30000}

InitDuration ==
    /\ probe = NoProbe
    /\ \E s \in DurationTimes, e \in DurationTimes :
          /\ clock = e
          /\ currentSession = [subject |-> Str(SUBJECTS[1]), startAt |-> DateValue(s)]
          /\ recordStatus = [kind |-> "started", at |-> s]
    /\ storage = FirstPage.storage
    /\ startBtnDisabled = TRUE
    /\ endBtnDisabled = FALSE
    /\ goalMessage = FirstPage.goalMessage
    /\ view = FirstPage.view

NextDuration == endBtnClick

SpecDuration == InitDuration /\ [][NextDuration]_vars

\* C2: a successful stop records max(1, round((e - s) / 60000)) minutes for
\* the start time s and the stop time e: an integer m >= 1, with e - s below
\* a minute and a half when m = 1 and within half a minute of m minutes (the
\* half rounding up) otherwise.
C2_DurationRounded ==
    [][StopStep =>
        LET stored == Get(LastOf(PersistedRecords(storage').a), "duration")
            d == clock - currentSession.startAt.ms
        IN /\ stored.t = "number"
           /\ stored.x10 % 10 = 0
           /\ LET m == stored.x10 \div 10
              IN /\ m >= 1
                 /\ m = 1 => d < 90000
                 /\ m > 1 => (60000 * m - 30000 <= d /\ d < 60000 * m + 30000)]_vars

C2_Witness ==
    /\ recordStatus.kind = "recorded"
    /\ recordStatus.minutes = 1
    /\ clock = 0
    /\ Get(LastOf(PersistedRecords(storage).a), "duration") = Num(1)

(***************************************************************************)
(* loadData on what the storage may hold.                                  *)
(***************************************************************************)
StoredTargets ==
    {Null, Num(0 - 5), Num(0), Frac(4), Num(45), Num(300), Str("45"), Str("abc"),
     Str(""), PosInf}

StoredGoals ==
    {Undef, Null, Num(7), Str("weekly"), Obj([mode |-> Str("weekly")])}
        \cup {Obj([targetMinutes |-> tm]) : tm \in StoredTargets}
        \cup {Obj([mode |-> Str("daily"), targetMinutes |-> Num(45)])}

StoredRecordLists ==
    {Undef, Null, Str("none"), Num(3), Obj([length |-> Num(0)]), Arr(<<>>),
     Arr(<<OldRecord>>),
     Arr(<<OldRecord, newRecord(0, Str("sugaku"), 25)>>)}

\* An object with the given records and goal; Undef stands for a property
\* the object does not have.
StoredObject(records, goal) ==
    Obj([key \in {k \in {"records", "goal"} :
                    IF k = "records" THEN records # Undef ELSE goal # Undef} |->
            IF key = "records" THEN records ELSE goal])

StoredItems ==
    {AbsentItem, EmptyItem, GarbageItem}
        \cup {JsonItem(v) : v \in {Null, Num(5), Str("text"), Arr(<<>>)}}
        \cup {JsonItem(StoredObject(r, g)) : r \in StoredRecordLists, g \in StoredGoals}

InitLoad ==
    /\ storage \in StoredItems
    /\ probe = [op |-> "loadData", done |-> FALSE, out |-> Undef]
    /\ clock = 0
    /\ currentSession = FirstPage.currentSession
    /\ startBtnDisabled = FirstPage.startBtnDisabled
    /\ endBtnDisabled = FirstPage.endBtnDisabled
    /\ recordStatus = FirstPage.recordStatus
    /\ goalMessage = FirstPage.goalMessage
    /\ view = FirstPage.view

\* loadData() is called.
LoadStep ==
    /\ probe.op = "loadData"
    /\ ~probe.done
    /\ probe' = [probe EXCEPT !.done = TRUE, !.out = loadData(storage)]
    /\ UNCHANGED <<storage, currentSession, startBtnDisabled, endBtnDisabled,
                   recordStatus, goalMessage, view, clock>>

NextLoad == LoadStep

SpecLoad == InitLoad /\ [][NextLoad]_vars

\* A stored targetMinutes that is numeric and above 0.
StoredTargetValid(v) ==
    \/ (v.t = "number" /\ v.x10 > 0)
    \/ v.t = "Infinity"
    \/ (v.t = "string" /\ v.s = "45")

\* The number n is the stored value v.
SameNumber(n, v) == IF v.t = "string" THEN (v.s = "45" /\ n = Num(45)) ELSE n = v

\* C6: for every stored item load() returns a snapshot and does not throw;
\* its records are the stored records when those are an array and [] if not,
\* and, whatever the records are, its targetMinutes is the stored value when
\* that is numeric and above 0 and 300 if not.
C6_LoadPerField ==
    (probe.op = "loadData" /\ probe.done) =>
        /\ probe.out # Thrown
        /\ probe.out.t = "object"
        /\ DOMAIN probe.out.f = {"records", "goal"}
        /\ Get(probe.out, "records") =
              (IF PersistedRecords(storage).t = "array"
               THEN PersistedRecords(storage) ELSE Arr(<<>>))
        /\ IF StoredTargetValid(PersistedTarget(storage))
           THEN SameNumber(Get(Get(probe.out, "goal"), "targetMinutes"),
                           PersistedTarget(storage))
           ELSE Get(Get(probe.out, "goal"), "targetMinutes") = Num(300)

C6_Witness ==
    /\ probe.op = "loadData"
    /\ probe.done
    /\ PersistedRecords(storage) = Str("none")
    /\ PersistedTarget(storage) = Num(45)
    /\ Get(probe.out, "records") = Arr(<<>>)
    /\ Get(Get(probe.out, "goal"), "targetMinutes") = Num(45)

(***************************************************************************)
(* filterLast7Days on one or two records, for every day of the model's     *)
(* calendar and four times of the day.                                     *)
(***************************************************************************)
WindowTimes ==
    {d * DayMs + o : d \in 0..MaxWindowDay, o \in {0, 1, DayMs \div 2, DayMs - 1}}

RecordDays == 0..(MaxWindowDay + 1)

\* A stored record dated the given day of the model's calendar.
RecordDated(day) ==
    Obj([date |-> Str(CalendarDays[day + 1]),
         subject |-> Str(SUBJECTS[2]),
         duration |-> Num(10 + day)])

RecordsDated(days) == Arr([i \in 1..Len(days) |-> RecordDated(days[i])])

InitFilter ==
    /\ clock \in WindowTimes
    /\ \E days \in {<<d>> : d \in RecordDays} \cup (RecordDays \X RecordDays) :
          probe = [op |-> "filterLast7Days", days |-> days, done |-> FALSE,
                   kept |-> Arr(<<>>)]
    /\ storage = FirstPage.storage
    /\ currentSession = FirstPage.currentSession
    /\ startBtnDisabled = FirstPage.startBtnDisabled
    /\ endBtnDisabled = FirstPage.endBtnDisabled
    /\ recordStatus = FirstPage.recordStatus
    /\ goalMessage = FirstPage.goalMessage
    /\ view = FirstPage.view

\* filterLast7Days(records) is called.
FilterStep ==
    /\ probe.op = "filterLast7Days"
    /\ ~probe.done
    /\ probe' = [probe EXCEPT !.done = TRUE,
                              !.kept = filterLast7Days(RecordsDated(probe.days), clock)]
    /\ UNCHANGED <<storage, currentSession, startBtnDisabled, endBtnDisabled,
                   recordStatus, goalMessage, view, clock>>

NextFilter == FilterStep

SpecFilter == InitFilter /\ [][NextFilter]_vars

Filtered == probe.op = "filterLast7Days" /\ probe.done

\* The record dated the given day is among the kept ones.
Kept(day) == \E j \in 1..Len(probe.kept.a) : probe.kept.a[j] = RecordDated(day)

\* C9: the records kept are, in their order, exactly those dated one of the
\* seven calendar days today-6 .. today, whatever the time of day of now.
C9_SevenDayWindow ==
    Filtered =>
        LET today == DayIndex(clock)
            inWindow(day) == today - 6 <= day /\ day <= today
        IN probe.kept = RecordsDated(SelectSeq(probe.days, inWindow))

C9_Witness ==
    /\ Filtered
    /\ clock % DayMs = DayMs - 1
    /\ probe.days = <<DayIndex(clock) + 1, DayIndex(clock) - 6>>
    /\ probe.kept = RecordsDated(<<DayIndex(clock) - 6>>)

\* C10 as stated: a record dated 7 days before today is kept and one dated
\* 8 days before today is dropped.
C10_KeepsDayMinus7 ==
    Filtered =>
        \A i \in 1..Len(probe.days) :
            /\ probe.days[i] = DayIndex(clock) - 7 => Kept(probe.days[i])
            /\ probe.days[i] = DayIndex(clock) - 8 => ~Kept(probe.days[i])

\* C10 amended: a record dated 6 days before today is kept and one dated 7
\* or 8 days before today is dropped; with now on 2024-03-10 a record dated
\* 2024-03-04 is kept and records dated 2024-03-03 and 2024-03-02 are dropped.
C10_KeepsDayMinus6 ==
    Filtered =>
        /\ \A i \in 1..Len(probe.days) :
              /\ probe.days[i] = DayIndex(clock) - 6 => Kept(probe.days[i])
              /\ probe.days[i] = DayIndex(clock) - 7 => ~Kept(probe.days[i])
              /\ probe.days[i] = DayIndex(clock) - 8 => ~Kept(probe.days[i])
        /\ DayText(clock) = "2024-03-10" =>
              \A i \in 1..Len(probe.days) :
                 LET date == CalendarDays[probe.days[i] + 1]
                     kept == \E j \in 1..Len(probe.kept.a) :
                                Get(probe.kept.a[j], "date") = Str(date)
                 IN /\ date = "2024-03-04" => kept
                    /\ date \in {"2024-03-03", "2024-03-02"} => ~kept

C10_Witness ==
    /\ Filtered
    /\ DayText(clock) = "2024-03-10"
    /\ probe.days = <<4, 5>>
    /\ Len(probe.kept.a) = 1
    /\ Get(probe.kept.a[1], "date") = Str("2024-03-04")

(***************************************************************************)
(* calcSubjectTotals on sequences of up to two records whose subject is    *)
(* one of the fixed ones, a name outside them, or a name every object      *)
(* inherits, and whose duration is a number, a text, or missing.           *)
(***************************************************************************)
TotalsSubjects == {SUBJECTS[1], SUBJECTS[2], "art", "toString"}

TotalsDurations == {Num(10), Num(25), Str("abc"), Undef}

\* A stored record of today; Undef stands for a missing duration.
RecordWith(subject, duration) ==
    IF duration = Undef
    THEN Obj([date |-> Str(CalendarDays[1]), subject |-> Str(subject)])
    ELSE Obj([date |-> Str(CalendarDays[1]), subject |-> Str(subject),
              duration |-> duration])

TotalsRecords == {RecordWith(sub, dur) : sub \in TotalsSubjects, dur \in TotalsDurations}

TotalsInputs ==
    {<<>>} \cup {<<r>> : r \in TotalsRecords} \cup (TotalsRecords \X TotalsRecords)

InitTotals ==
    /\ probe \in {[op |-> "calcSubjectTotals", recs |-> recs, done |-> FALSE,
                   out |-> <<>>] : recs \in TotalsInputs}
    /\ clock = 0
    /\ storage = FirstPage.storage
    /\ currentSession = FirstPage.currentSession
    /\ startBtnDisabled = FirstPage.startBtnDisabled
    /\ endBtnDisabled = FirstPage.endBtnDisabled
    /\ recordStatus = FirstPage.recordStatus
    /\ goalMessage = FirstPage.goalMessage
    /\ view = FirstPage.view

\* calcSubjectTotals(records) is called.
TotalsStep ==
    /\ probe.op = "calcSubjectTotals"
    /\ ~probe.done
    /\ probe' = [probe EXCEPT !.done = TRUE, !.out = calcSubjectTotals(Arr(probe.recs))]
    /\ UNCHANGED <<storage, currentSession, startBtnDisabled, endBtnDisabled,
                   recordStatus, goalMessage, view, clock>>

NextTotals == TotalsStep

SpecTotals == InitTotals /\ [][NextTotals]_vars

\* The minutes a record counts for: its duration when that is a number, else 0.
CountedMinutes(record) ==
    IF Get(record, "duration").t = "number" THEN Get(record, "duration").x10 \div 10 ELSE 0

\* The sum of the counted minutes of the records with the given subject.
RECURSIVE MinutesOf(_, _)
MinutesOf(subject, recs) ==
    IF Len(recs) = 0 THEN 0
    ELSE MinutesOf(subject, Tail(recs))
            + (IF Get(Head(recs), "subject") = Str(subject)
               THEN CountedMinutes(Head(recs)) ELSE 0)

Totalled == probe.op = "calcSubjectTotals" /\ probe.done

\* C11 as stated: the keys of the totals are exactly the five subjects, each
\* value is the sum of the durations of the records with that subject (a
\* non-numeric or missing duration counting as 0), and a record with any
\* other subject adds no key and changes no bucket.
C11_TotalsOfFixedSubjects ==
    Totalled =>
        /\ DOMAIN probe.out = {SUBJECTS[i] : i \in 1..Len(SUBJECTS)}
        /\ \A i \in 1..Len(SUBJECTS) :
              probe.out[SUBJECTS[i]] = Num(MinutesOf(SUBJECTS[i], probe.recs))

\* The buckets of the five subjects alone are the sums of their records.
C11_FixedBucketsSummed ==
    Totalled =>
        \A i \in 1..Len(SUBJECTS) :
            /\ SUBJECTS[i] \in DOMAIN probe.out
            /\ probe.out[SUBJECTS[i]] = Num(MinutesOf(SUBJECTS[i], probe.recs))

(***************************************************************************)
(* The progress view drawn from stored snapshots of up to two records,     *)
(* dated today or before the window, with a duration that is a number, a   *)
(* text, missing, or a JSON number beyond the double range, and a goal     *)
(* that is valid, zero, or beyond the double range.                        *)
(***************************************************************************)
ProgressDurations == {Num(100), Num(350), Str("abc"), Undef, PosInf}

ProgressTargets == {Num(300), Num(45), Num(0), PosInf}

ProgressRecords ==
    {RecordWith(SUBJECTS[1], dur) : dur \in ProgressDurations}
        \cup {Obj([date |-> Get(OldRecord, "date"), subject |-> Str(SUBJECTS[1]),
                   duration |-> dur]) : dur \in ProgressDurations \ {Undef}}

ProgressItems ==
    {JsonItem(StoredObject(Arr(recs), Obj([mode |-> Str("weekly"), targetMinutes |-> tm]))) :
        recs \in {<<>>} \cup {<<r>> : r \in ProgressRecords}
                    \cup (ProgressRecords \X ProgressRecords),
        tm \in ProgressTargets}

InitProgress ==
    /\ storage \in ProgressItems
    /\ probe = NoProbe
    /\ clock = 0
    /\ currentSession = FirstPage.currentSession
    /\ startBtnDisabled = FirstPage.startBtnDisabled
    /\ endBtnDisabled = FirstPage.endBtnDisabled
    /\ recordStatus = FirstPage.recordStatus
    /\ goalMessage = FirstPage.goalMessage
    /\ view = [weeklyTotal |-> Undef, remaining |-> Undef, chart |-> <<>>]

NextProgress == progressTabClick

SpecProgress == InitProgress /\ [][NextProgress]_vars

\* a >= b on number values (false when either is NaN)
AtLeast(a, b) ==
    /\ a.t # "NaN" /\ b.t # "NaN"
    /\ \/ a.t = "Infinity"
       \/ b.t = "-Infinity"
       \/ (a.t = "number" /\ b.t = "number" /\ a.x10 >= b.x10)

\* The sum of the counted durations of the records dated the model's day 0.
RECURSIVE TodayTotal(_)
TodayTotal(recs) ==
    IF Len(recs) = 0 THEN Num(0)
    ELSE NumAdd(TodayTotal(Tail(recs)),
                IF Get(Head(recs), "date") # Str(CalendarDays[1]) THEN Num(0)
                ELSE IF Get(Head(recs), "duration").t \in {"number", "Infinity"}
                THEN Get(Head(recs), "duration")
                ELSE Num(0))

\* The target load() returns for the stored snapshot.
LoadedTarget(item) == Get(Get(loadData(item), "goal"), "targetMinutes")

\* C12 as stated, for the view drawn at clock 0: the weekly total is the sum
\* of the durations of the records of the last 7 days; the remaining minutes
\* are never negative, are 0 exactly when the weekly total is at least the
\* target, and otherwise add up with the weekly total to the target; a
\* target of 300 leaves 0 for a total of 350 and 200 for a total of 100.
C12_RemainingNeverNegative ==
    [][progressTabClick =>
        /\ view'.weeklyTotal = TodayTotal(PersistedRecords(storage).a)
        /\ AtLeast(view'.remaining, Num(0))
        /\ (view'.remaining = Num(0)) <=> AtLeast(view'.weeklyTotal, LoadedTarget(storage))
        /\ ~AtLeast(view'.weeklyTotal, LoadedTarget(storage)) =>
              NumAdd(view'.remaining, view'.weeklyTotal) = LoadedTarget(storage)
        /\ (LoadedTarget(storage) = Num(300) /\ view'.weeklyTotal = Num(350)) =>
              view'.remaining = Num(0)
        /\ (LoadedTarget(storage) = Num(300) /\ view'.weeklyTotal = Num(100)) =>
              view'.remaining = Num(200)]_vars

\* The same for the snapshots whose stored target is within the double range.
C12_RemainingOfFiniteTarget ==
    [][(progressTabClick /\ PersistedTarget(storage) # PosInf) =>
        /\ view'.weeklyTotal = TodayTotal(PersistedRecords(storage).a)
        /\ AtLeast(view'.remaining, Num(0))
        /\ (view'.remaining = Num(0)) <=> AtLeast(view'.weeklyTotal, LoadedTarget(storage))
        /\ ~AtLeast(view'.weeklyTotal, LoadedTarget(storage)) =>
              NumAdd(view'.remaining, view'.weeklyTotal) = LoadedTarget(storage)]_vars

(***************************************************************************)
(* Properties of the page (specification Spec), continued.                 *)
(***************************************************************************)
\* C13: in every step the persisted records keep their indices and their
\* contents, and the sequence gets longer only by one record, in a step of
\* the end handler on a running session.
C13_RecordsAppendOnly ==
    [][/\ PersistedRecords(storage).t = "array"
       /\ PersistedRecords(storage').t = "array"
       /\ Len(PersistedRecords(storage').a) >= Len(PersistedRecords(storage).a)
       /\ SubSeq(PersistedRecords(storage').a, 1, Len(PersistedRecords(storage).a))
             = PersistedRecords(storage).a
       /\ Len(PersistedRecords(storage').a) > Len(PersistedRecords(storage).a) =>
             /\ StopStep
             /\ Len(PersistedRecords(storage').a) = Len(PersistedRecords(storage).a) + 1
      ]_vars

C13_Witness ==
    /\ Len(PersistedRecords(storage).a) = 2
    /\ PersistedRecords(storage).a[1] = OldRecord
    /\ recordStatus.kind = "recorded"
    /\ goalMessage.kind = "saved"

(***************************************************************************)
(* Properties of loadData (specification SpecLoad), continued.             *)
(***************************************************************************)
\* C14 as stated: the targetMinutes load() returns is a finite number above
\* 0, and it is 300 when the stored value coerces to positive infinity.
C14_LoadedTargetFinite ==
    (probe.op = "loadData" /\ probe.done) =>
        /\ Get(Get(probe.out, "goal"), "targetMinutes").t = "number"
        /\ Get(Get(probe.out, "goal"), "targetMinutes").x10 > 0
        /\ ToNumber(PersistedTarget(storage)) = PosInf =>
              Get(Get(probe.out, "goal"), "targetMinutes") = Num(300)

(***************************************************************************)
(* The record screen with the start control enabled when the page is       *)
(* loaded, in a browser that delivers no click to a disabled control       *)
(* (gated) and in one that delivers every click.                           *)
(***************************************************************************)
\* The page is loaded again; the document declares the start control enabled.
ReloadStartEnabled ==
    /\ \E page \in {PageLoaded(storage, FALSE, FALSE, clock)} :
          /\ storage' = page.storage
          /\ currentSession' = page.currentSession
          /\ recordStatus' = page.recordStatus
          /\ goalMessage' = page.goalMessage
          /\ view' = page.view
    /\ startBtnDisabled' = FALSE
    /\ endBtnDisabled' \in BOOLEAN
    /\ UNCHANGED <<clock, probe>>

\* A click on a control reaches its handler.
Delivered(disabled) == ~probe.gated \/ ~disabled

InitClicks ==
    /\ probe \in {[op |-> "clicks", gated |-> g] : g \in BOOLEAN}
    /\ clock \in Times
    /\ \E item \in InitialItems, ed \in BOOLEAN :
          \E page \in {PageLoaded(item, FALSE, ed, clock)} :
             /\ storage = page.storage
             /\ currentSession = page.currentSession
             /\ startBtnDisabled = page.startBtnDisabled
             /\ endBtnDisabled = page.endBtnDisabled
             /\ recordStatus = page.recordStatus
             /\ goalMessage = page.goalMessage
             /\ view = page.view

NextClicks ==
    \/ \E name \in SubjectButtons : subjectBtnClick(name)
    \/ (Delivered(startBtnDisabled) /\ startBtnClick)
    \/ (Delivered(endBtnDisabled) /\ endBtnClick)
    \/ ReloadStartEnabled
    \/ ClockAdvance
    \/ ClockSetBack

SpecClicks == InitClicks /\ [][NextClicks]_vars

\* C15: with gated clicks the start control is disabled exactly while a
\* start time is held, and a held start time changes only by being cleared;
\* a start click that is delivered while a start time is held replaces it
\* with the current time.
C15_StartGatedNotGuarded ==
    [][/\ probe.gated =>
            /\ startBtnDisabled <=> (currentSession.startAt # Null)
            /\ startBtnDisabled' <=> (currentSession'.startAt # Null)
            /\ currentSession.startAt # Null =>
                  currentSession'.startAt \in {currentSession.startAt, Null}
            /\ currentSession.startAt # Null => ~startBtnClick
       /\ (currentSession.startAt # Null /\ startBtnClick) =>
            currentSession'.startAt = DateValue(clock)]_vars

\* A session runs under gated clicks: the start control is disabled, time
\* has passed since the start and another subject has been selected.
C15_Witness ==
    /\ probe.gated
    /\ startBtnDisabled
    /\ ~endBtnDisabled
    /\ currentSession.startAt # Null
    /\ clock > currentSession.startAt.ms
    /\ recordStatus.kind = "selected"

(***************************************************************************)
(* Two tabs on the one storage key.  Each tab runs the script with its own *)
(* session, controls, messages and progress view; the handlers of the tab  *)
(* in front are the page's actions, and the other tab's page is kept in    *)
(* probe.back until the tabs are switched.  A handler runs to its end      *)
(* before any other starts.                                                *)
(***************************************************************************)
\* Texts typed into the goal input of either tab.
TabGoalTexts == {"abc", "0.4", "1.5"}

\* The page state of the tab in front.
FrontPage ==
    [currentSession |-> currentSession,
     startBtnDisabled |-> startBtnDisabled,
     endBtnDisabled |-> endBtnDisabled,
     recordStatus |-> recordStatus,
     goalMessage |-> goalMessage,
     view |-> view]

\* The other tab comes to the front.
SwitchTab ==
    /\ probe.op = "tabs"
    /\ probe' = [op |-> "tabs", front |-> 3 - probe.front, back |-> FrontPage]
    /\ currentSession' = probe.back.currentSession
    /\ startBtnDisabled' = probe.back.startBtnDisabled
    /\ endBtnDisabled' = probe.back.endBtnDisabled
    /\ recordStatus' = probe.back.recordStatus
    /\ goalMessage' = probe.back.goalMessage
    /\ view' = probe.back.view
    /\ UNCHANGED <<storage, clock>>

\* Both tabs have loaded the page on a first visit.
InitTabs ==
    /\ clock = 0
    /\ storage = FirstPage.storage
    /\ currentSession = FirstPage.currentSession
    /\ startBtnDisabled = FirstPage.startBtnDisabled
    /\ endBtnDisabled = FirstPage.endBtnDisabled
    /\ recordStatus = FirstPage.recordStatus
    /\ goalMessage = FirstPage.goalMessage
    /\ view = FirstPage.view
    /\ probe = [op |-> "tabs", front |-> 1,
                back |-> [currentSession |-> FirstPage.currentSession,
                          startBtnDisabled |-> FirstPage.startBtnDisabled,
                          endBtnDisabled |-> FirstPage.endBtnDisabled,
                          recordStatus |-> FirstPage.recordStatus,
                          goalMessage |-> FirstPage.goalMessage,
                          view |-> FirstPage.view]]

\* The tab in front is used; tab 1 records the first subject and tab 2 the
\* second, so that a stored record tells the tab that appended it.
NextTabs ==
    \/ subjectBtnClick(SUBJECTS[probe.front])
    \/ (~startBtnDisabled /\ startBtnClick)
    \/ (~endBtnDisabled /\ endBtnClick)
    \/ \E text \in TabGoalTexts : saveGoalBtnClick(text)
    \/ SwitchTab

SpecTabs == InitTabs /\ [][NextTabs]_vars

\* C16 as stated: whichever tab's handler runs, every record in the store
\* stays in it; a stop appends the record of the tab in front and leaves the
\* stored goal, whichever tab saved it, as it is; an accepted goal save
\* leaves the records as they are and stores the rounded value.
C16_NoLostUpdate ==
    [][/\ SubSeq(PersistedRecords(storage').a, 1, Len(PersistedRecords(storage).a))
             = PersistedRecords(storage).a
       /\ StopStep =>
             /\ Len(PersistedRecords(storage').a) = Len(PersistedRecords(storage).a) + 1
             /\ Get(LastOf(PersistedRecords(storage').a), "subject")
                   = Str(SUBJECTS[probe.front])
             /\ PersistedGoal(storage') = PersistedGoal(storage)
       /\ \A text \in TabGoalTexts :
             (~goalRejected(ToNumber(Str(text))) /\ saveGoalBtnClick(text)) =>
                /\ PersistedRecords(storage') = PersistedRecords(storage)
                /\ PersistedTarget(storage') = MathRound(ToNumber(Str(text)))]_vars

\* The same, the goal being compared after a stop only when the stored
\* target is not 0.
C16_NoLostUpdateButZeroGoal ==
    [][/\ SubSeq(PersistedRecords(storage').a, 1, Len(PersistedRecords(storage).a))
             = PersistedRecords(storage).a
       /\ StopStep =>
             /\ Len(PersistedRecords(storage').a) = Len(PersistedRecords(storage).a) + 1
             /\ Get(LastOf(PersistedRecords(storage').a), "subject")
                   = Str(SUBJECTS[probe.front])
             /\ PersistedTarget(storage) # Num(0) =>
                   PersistedGoal(storage') = PersistedGoal(storage)
       /\ \A text \in TabGoalTexts :
             (~goalRejected(ToNumber(Str(text))) /\ saveGoalBtnClick(text)) =>
                /\ PersistedRecords(storage') = PersistedRecords(storage)
                /\ PersistedTarget(storage') = MathRound(ToNumber(Str(text)))]_vars

\* Both tabs have appended a record, tab 2 first, and the goal one of them
\* saved in between is stored.
C16_BothTabsRecorded ==
    /\ probe.op = "tabs"
    /\ Len(PersistedRecords(storage).a) = 2
    /\ Get(PersistedRecords(storage).a[1], "subject") = Str(SUBJECTS[2])
    /\ Get(PersistedRecords(storage).a[2], "subject") = Str(SUBJECTS[1])
    /\ PersistedTarget(storage) = Num(2)

(***************************************************************************)
(* The cycle of sessions on the record screen (specification SpecClicks).  *)
(***************************************************************************)
\* A start click that is delivered and passes the handler's guard.
AcceptedStart ==
    ~startRejected(currentSession) /\ Delivered(startBtnDisabled) /\ startBtnClick

\* An end click that is delivered and passes the handler's guard.
AcceptedStop ==
    ~endRejected(currentSession) /\ Delivered(endBtnDisabled) /\ endBtnClick

\* The number of stored records.
StoredCount == Len(PersistedRecords(storage).a)

\* C17: in every reachable state a subject can be selected; with a subject
\* and no start time a start click can be taken and every such step records
\* a start time; with a start time the end click is delivered and passes
\* the guard, and every such step appends one record and leaves a session
\* with its subject and no start time, whatever the number of records
\* already stored.
C17_SessionsRepeat ==
    [][/\ ENABLED (\E name \in SubjectButtons : subjectBtnClick(name))
       /\ (currentSession.startAt = Null /\ currentSession.subject # Null) =>
             ENABLED AcceptedStart
       /\ currentSession.startAt # Null =>
             (Delivered(endBtnDisabled) /\ ~endRejected(currentSession))
       /\ AcceptedStart => currentSession'.startAt # Null
       /\ AcceptedStop =>
             /\ StoredCount' = StoredCount + 1
             /\ currentSession'.startAt = Null
             /\ currentSession'.subject # Null
             /\ Delivered(startBtnDisabled')]_vars

\* A second session has been completed after a first one.
C17_Witness ==
    /\ StoredCount = 2
    /\ PersistedRecords(storage).a[1] # OldRecord
    /\ recordStatus.kind = "recorded"
    /\ currentSession.startAt = Null
    /\ ~startBtnDisabled

(***************************************************************************)
(* Properties of the page (specification Spec), continued.                 *)
(***************************************************************************)
\* C18: whenever the session holds a start time it holds a subject, and the
\* guard of the end handler accepts it.
C18_RunningHasSubject ==
    currentSession.startAt # Null =>
        /\ currentSession.subject # Null
        /\ ~Falsy(currentSession.subject)
        /\ ~endRejected(currentSession)

C18_Witness ==
    /\ currentSession.startAt # Null
    /\ currentSession.subject = Str(SUBJECTS[2])
    /\ recordStatus.kind = "started"
    /\ StoredCount = 2

(***************************************************************************)
(* The page reloaded while a subject is selected or a session runs, the    *)
(* storage key holding anything loadData may meet.                         *)
(***************************************************************************)
InitReload ==
    /\ storage \in StoredItems
    /\ probe = NoProbe
    /\ clock = 0
    /\ \E running \in BOOLEAN :
          /\ currentSession =
                [subject |-> Str(SUBJECTS[1]),
                 startAt |-> IF running THEN DateValue(0) ELSE Null]
          /\ startBtnDisabled = running
          /\ endBtnDisabled = ~running
          /\ recordStatus =
                (IF running THEN [kind |-> "started", at |-> 0]
                 ELSE [kind |-> "selected", subject |-> Str(SUBJECTS[1])])
    /\ goalMessage = FirstPage.goalMessage
    /\ view = updateProgressView(storage, 0)

NextReload ==
    \/ Reload
    \/ endBtnClick

SpecReload == InitReload /\ [][NextReload]_vars

\* C19: a reload writes the default snapshot when the key is absent or
\* empty and leaves any other stored item as it is; after it the session is
\* {subject: null, startAt: null}, so the end handler rejects and a session
\* that was running adds no record.
C19_ReloadKeepsStore ==
    [][Reload =>
        /\ storage' = (IF storage \in {AbsentItem, EmptyItem}
                       THEN JsonItem(defaultData) ELSE storage)
        /\ currentSession' = [subject |-> Null, startAt |-> Null]
        /\ endRejected(currentSession')]_vars

\* The page has been reloaded over a stored text that is not JSON.
C19_Witness ==
    /\ recordStatus.kind = "initial"
    /\ currentSession = [subject |-> Null, startAt |-> Null]
    /\ storage = GarbageItem

\* The bucket of a subject in the totals of the records of the last 7 days.
RecentBucket(records, now, subject) ==
    calcSubjectTotals(filterLast7Days(records, now))[subject]

\* C20: the record a stop appends is dated the day of the stop and is
\* counted by the progress view drawn in the same handler: the weekly total
\* shown is the weekly total of the earlier records at that time plus the
\* new duration, the bucket of the record's subject grows by the new
\* duration and the other buckets are those of the earlier records.
C20_StopCountsNewRecord ==
    [][StopStep =>
        /\ Get(LastOf(PersistedRecords(storage').a), "date") = Str(DayText(clock))
        /\ view'.weeklyTotal =
              NumAdd(SumDurations(filterLast7Days(PersistedRecords(storage), clock).a),
                     Get(LastOf(PersistedRecords(storage').a), "duration"))
        /\ \A i \in 1..Len(SUBJECTS) :
              view'.chart[i] =
                 NumAdd(RecentBucket(PersistedRecords(storage), clock, SUBJECTS[i]),
                        IF currentSession.subject = Str(SUBJECTS[i])
                        THEN Get(LastOf(PersistedRecords(storage').a), "duration")
                        ELSE Num(0))]_vars

\* A stop at midnight has added its record to a store whose only other
\* record is older than the window: the weekly total is the new duration.
C20_Witness ==
    /\ recordStatus.kind = "recorded"
    /\ clock = 0
    /\ StoredCount = 2
    /\ PersistedRecords(storage).a[1] = OldRecord
    /\ view.weeklyTotal = Num(1)
    /\ view.chart[1] = Num(1)

====
